---- MODULE Spec2Model ----
(***************************************************************************)
(* A model of yahoozy.py: the scoring rules (Category.compute), the score  *)
(* sheet (ScoreSheet), the dice (DiceState), the turn loop (game_loop),    *)
(* and the history file (game_end, savehist, loadhist).                    *)
(*                                                                         *)
(* Indices are the source's: dice are numbered 0..4, categories 0..14.     *)
(* Text (player names, the history file) is a sequence of code points.     *)
(***************************************************************************)
EXTENDS Integers, Sequences, FiniteSets, TLC

VARIABLES
    screen,       \* which loop runs: "main", "game", "end", or "crashed"
    players,      \* the global roster: a sequence of [name, ss]
    ds,           \* game_loop's DiceState: [rolls, dice, rollmsk]
    cur,          \* position of `player` in players (itertools.cycle), 0-based
    picking_cat,  \* game_loop's picking_cat
    rs,           \* the RenderState: [sel, togl, diag]
    histfile,     \* the text of the history file
    keys,         \* key presses handled since the phase began (bounds the driver)
    rerolled,     \* successful rerolls since the turn began (for the properties)
    last,         \* the last command, its error and its argument (for the properties)
    npp,          \* main's NewPlayerPanel: [active, bi, pi, text, start_text, diag]
    inst          \* the program instances inside game_end: a sequence of
                  \* [pc, hist, finals], game_end's position and locals

vars == <<screen, players, ds, cur, picking_cat, rs, histfile, keys, rerolled, last,
          npp, inst>>

----------------------------------------------------------------------------
(* Program constants *)

BTNAP == -1
BTNSG == -2
BTNAPP == -3
BTNRR == -5
BTNKA == -6
BTNSC == -7

NDICE == 5
START_ROLLS == 2
ALL_DICE_MSK == 31
BONUS_MIN == 63
BONUS == 50
US == 31
NL == 10

Categories ==
    << "Ones", "Twos", "Threes", "Fours", "Fives", "Sixes",
       "One Pair", "Two Pairs", "Three of a Kind", "Four of a Kind",
       "Small Straight", "Large Straight", "Full House", "Chance", "Yatzy" >>

NCAT == Len(Categories)

\* the i-th category in the order of declaration, 0 <= i < len(Category)
CatAt(i) == Categories[i + 1]

CategorySet == { Categories[i] : i \in 1..NCAT }

UPPER_SECTION == { Categories[i] : i \in 1..6 }

LOWER_SECTION == CategorySet \ UPPER_SECTION

----------------------------------------------------------------------------
(* Bounds of the model *)

\* players in the roster when a game starts: 1..MaxPlayers
MaxPlayers == 2
\* key presses handled in one rolling phase / one picking phase, whole games
GameRollKeys == 2
GamePickKeys == 3
\* the same for the specification that follows the dice through the first turn
TurnRollKeys == 6
TurnPickKeys == 2
\* categories filled (over all players) before that specification stops
TurnFilled == 1
\* key presses of a rolling phase and of a picking phase, and categories
\* filled, for the specification that follows the first turns
PickRollKeys == 2
PickKeys == 2
PickFilled == 2
ScoreKeys == 3
ScoreFilled == 2
\* entries of the history file
MaxHist == 3
\* how many dice of one face an upper entry of a sampled sheet stands for
MaxFaceCount == 3
\* the longest text typed into the new-player panel
MaxNameLen == 2
\* how many instances of the program share the history file
Instances == 2
\* key presses per picking phase in the specification of a game played to its end
LivePickKeys == 2

----------------------------------------------------------------------------
(* Arithmetic helpers *)

RECURSIVE SumOver(_, _)
SumOver(f, S) ==
    IF S = {} THEN 0
    ELSE LET x == CHOOSE y \in S : TRUE
         IN  f[x] + SumOver(f, S \ {x})

Max(S) == CHOOSE x \in S : \A y \in S : y <= x

RECURSIVE Pow2(_)
Pow2(n) == IF n = 0 THEN 1 ELSE 2 * Pow2(n - 1)

\* bit i of mask m
Bit(m, i) == (m \div Pow2(i)) % 2

\* m ^ (1 << i)
XorBit(m, i) == IF Bit(m, i) = 1 THEN m - Pow2(i) ELSE m + Pow2(i)

\* int.bit_length()
RECURSIVE BitLength(_)
BitLength(m) == IF m = 0 THEN 0 ELSE 1 + BitLength(m \div 2)

----------------------------------------------------------------------------
(* Category.compute *)

DiceIdx == 0..(NDICE - 1)

\* dice.count(x)
Count(dice, x) == Cardinality({ i \in DiceIdx : dice[i] = x })

SumDice(dice) == SumOver(dice, DiceIdx)

\* the faces the generator (x for x in range(6, 0, -1) if dice.count(x) >= n) yields
FacesAtLeast(dice, n) == { x \in 1..6 : Count(dice, x) >= n }

\* the faces that occur n times or more
FacesNotBelow(dice, n) == { x \in 1..6 : Count(dice, x) >= n }

FacesExactly(dice, n) == { x \in 1..6 : Count(dice, x) = n }

\* next(g) * k, or 0 on StopIteration
HighestTimes(dice, n, k) ==
    LET g == FacesAtLeast(dice, n)
    IN  IF g = {} THEN 0 ELSE Max(g) * k

\* two pairs with partial credit for a single pair
TwoPairsPartial(dice) ==
    LET g == FacesAtLeast(dice, 2)
    IN  IF g = {} THEN 0
        ELSE IF Cardinality(g) < 2 THEN Max(g) * 2
        ELSE (Max(g) + Max(g \ {Max(g)})) * 2

TwoPairs(dice) ==
    LET g == FacesAtLeast(dice, 2)
    IN  IF Cardinality(g) < 2 THEN 0
        ELSE LET f1 == Max(g)
                 f2 == Max(g \ {f1})
             IN  (f1 + f2) * 2

FullHouse(dice) ==
    IF FacesExactly(dice, 2) = {} \/ FacesExactly(dice, 3) = {}
    THEN 0
    ELSE SumDice(dice)

\* a set that holds the first die only
FaceSetFirst(dice) == { dice[0] }

FaceSet(dice) == { dice[i] : i \in DiceIdx }

compute(cat, dice) ==
    CASE cat = "Ones"            -> Count(dice, 1)
      [] cat = "Twos"            -> Count(dice, 2) * 2
      [] cat = "Threes"          -> Count(dice, 3) * 3
      [] cat = "Fours"           -> Count(dice, 4) * 4
      [] cat = "Fives"           -> Count(dice, 5) * 5
      [] cat = "Sixes"           -> Count(dice, 6) * 6
      [] cat = "One Pair"        -> HighestTimes(dice, 2, 2)
      [] cat = "Two Pairs"       -> TwoPairs(dice)
      [] cat = "Three of a Kind" -> HighestTimes(dice, 3, 3)
      [] cat = "Four of a Kind"  -> HighestTimes(dice, 4, 4)
      [] cat = "Small Straight"  -> IF FaceSet(dice) = {1, 2, 3, 4, 5} THEN 15 ELSE 0
      [] cat = "Large Straight"  -> IF FaceSet(dice) = {2, 3, 4, 5, 6} THEN 20 ELSE 0
      [] cat = "Full House"      -> FullHouse(dice)
      [] cat = "Chance"          -> SumDice(dice)
      [] cat = "Yatzy"           -> IF Cardinality(FaceSet(dice)) = 1 THEN 50 ELSE 0

----------------------------------------------------------------------------
(* ScoreSheet: a dictionary from categories to points *)

EmptySheet == [c \in {} |-> 0]

\* an assignment that leaves a present entry as it is (dict.setdefault)
SheetSetDefault(ss, cat, pts) ==
    [c \in (DOMAIN ss) \cup {cat} |-> IF c \in DOMAIN ss THEN ss[c] ELSE pts]

\* ss[cat] = pts (UserDict.__setitem__)
SheetSet(ss, cat, pts) ==
    [c \in (DOMAIN ss) \cup {cat} |-> IF c = cat THEN pts ELSE ss[c]]

\* ss.get(cat, 0)
SheetGet(ss, cat) == IF cat \in DOMAIN ss THEN ss[cat] ELSE 0

SectionSum(ss, section) == SumOver(ss, section \cap DOMAIN ss)

\* a total that gives the bonus only above BONUS_MIN
total_above(ss) ==
    LET lower == SectionSum(ss, LOWER_SECTION)
        upper == SectionSum(ss, UPPER_SECTION)
        bonus == IF upper > BONUS_MIN THEN BONUS ELSE 0
    IN  lower + upper + bonus

total(ss) ==
    LET lower == SectionSum(ss, LOWER_SECTION)
        upper == SectionSum(ss, UPPER_SECTION)
        bonus == IF upper >= BONUS_MIN THEN BONUS ELSE 0
    IN  lower + upper + bonus

\* Player(name)
NewPlayer(name) == [name |-> name, ss |-> EmptySheet]

----------------------------------------------------------------------------
(* The history file: savehist, loadhist, and game_end's sorted insertion *)

\* "%d" % n for n >= 0: the decimal digits, most significant first
RECURSIVE FormatInt(_)
FormatInt(n) ==
    IF n < 10 THEN << 48 + n >>
    ELSE Append(FormatInt(n \div 10), 48 + (n % 10))

IsDigits(s) == Len(s) > 0 /\ \A i \in 1..Len(s) : s[i] \in 48..57

\* int(s) for a string of decimal digits
RECURSIVE ParseInt(_)
ParseInt(s) ==
    IF Len(s) = 0 THEN 0
    ELSE 10 * ParseInt(SubSeq(s, 1, Len(s) - 1)) + (s[Len(s)] - 48)

\* the line savehist writes for entry x = <<score, name>>
EntryLine(x) == FormatInt(x[1]) \o << US >> \o x[2] \o << NL >>

RECURSIVE HistText(_)
HistText(xs) ==
    IF xs = << >> THEN << >>
    ELSE EntryLine(Head(xs)) \o HistText(Tail(xs))

\* fp.seek(0); savehist(fp, xs) on a file opened "r+": the text is written
\* over the old contents from offset 0, and what lies beyond it stays
savehist(old, xs) ==
    LET text == HistText(xs)
    IN  text \o SubSeq(old, Len(text) + 1, Len(old))

\* the index of the first occurrence of c in s at or after i, or 0
RECURSIVE FirstIndexFrom(_, _, _)
FirstIndexFrom(s, c, i) ==
    IF i > Len(s) THEN 0
    ELSE IF s[i] = c THEN i
    ELSE FirstIndexFrom(s, c, i + 1)

FirstIndex(s, c) == FirstIndexFrom(s, c, 1)

\* fp.readline() on the rest of the file, with the trailing "\n" stripped
FirstLine(text) ==
    LET i == FirstIndex(text, NL)
    IN  IF i = 0 THEN text ELSE SubSeq(text, 1, i - 1)

AfterFirstLine(text) ==
    LET i == FirstIndex(text, NL)
    IN  IF i = 0 THEN << >> ELSE SubSeq(text, i + 1, Len(text))

\* score, name = line.split("\x1F"); (int(score), name)
\* ok is FALSE where the source raises ValueError
ParseLine(line) ==
    LET i == FirstIndex(line, US)
        score == SubSeq(line, 1, i - 1)
        name == SubSeq(line, i + 1, Len(line))
    IN  IF i = 0 \/ FirstIndex(name, US) # 0 \/ ~IsDigits(score)
        THEN [ok |-> FALSE, x |-> << 0, << >> >>]
        ELSE [ok |-> TRUE, x |-> << ParseInt(score), name >>]

\* loadhist(fp, n): the first n entries (all of them when n = -1)
RECURSIVE loadhist(_, _)
loadhist(text, n) ==
    IF n = 0 \/ text = << >> THEN [ok |-> TRUE, xs |-> << >>]
    ELSE LET e == ParseLine(FirstLine(text))
             rest == loadhist(AfterFirstLine(text), IF n < 0 THEN n ELSE n - 1)
         IN  [ok |-> e.ok /\ rest.ok, xs |-> << e.x >> \o rest.xs]

\* Python's str <: lexicographic by code point, a proper prefix is smaller
RECURSIVE StrLess(_, _)
StrLess(s, t) ==
    IF t = << >> THEN FALSE
    ELSE IF s = << >> THEN TRUE
    ELSE IF Head(s) # Head(t) THEN Head(s) < Head(t)
    ELSE StrLess(Tail(s), Tail(t))

\* the key without the negation: (x[0], x[1])
KeyLessAscending(x, y) ==
    \/ x[1] < y[1]
    \/ x[1] = y[1] /\ StrLess(x[2], y[2])

\* key(x) < key(y) for key = lambda x: (-x[0], x[1])
KeyLess(x, y) ==
    \/ (0 - x[1]) < (0 - y[1])
    \/ x[1] = y[1] /\ StrLess(x[2], y[2])

\* bisect.bisect_left(a, x, key=...): the insertion point before equal keys
RECURSIVE BisectLeft(_, _, _, _)
BisectLeft(a, x, lo, hi) ==
    IF lo < hi
    THEN LET mid == (lo + hi) \div 2
         IN  IF KeyLess(a[mid + 1], x)
             THEN BisectLeft(a, x, mid + 1, hi)
             ELSE BisectLeft(a, x, lo, mid)
    ELSE lo

\* bisect.bisect_right(a, x, key=...): 0-based insertion point
RECURSIVE BisectRight(_, _, _, _)
BisectRight(a, x, lo, hi) ==
    IF lo < hi
    THEN LET mid == (lo + hi) \div 2
         IN  IF KeyLess(x, a[mid + 1])
             THEN BisectRight(a, x, lo, mid)
             ELSE BisectRight(a, x, mid + 1, hi)
    ELSE lo

InsertAt(a, i, x) == SubSeq(a, 1, i) \o << x >> \o SubSeq(a, i + 1, Len(a))

\* an insertion that skips an entry that is already present
insort_unique(a, x) ==
    IF \E i \in 1..Len(a) : a[i] = x THEN a
    ELSE InsertAt(a, BisectRight(a, x, 0, Len(a)), x)

\* bisect.insort(a, x, key=...)
insort(a, x) == InsertAt(a, BisectRight(a, x, 0, Len(a)), x)

\* for p in players: bisect.insort(hist, (p.ss.total(), p.name), key=...)
RECURSIVE MergeFinals(_, _)
MergeFinals(hist, finals) ==
    IF finals = << >> THEN hist
    ELSE MergeFinals(insort(hist, Head(finals)), Tail(finals))

Finals(ps) == [i \in 1..Len(ps) |-> << total(ps[i].ss), ps[i].name >>]

\* game_end's read-modify-write of the history file
\* (the file is left alone where loadhist raises)
game_end_file(file, finals) ==
    LET h == loadhist(file, -1)
    IN  IF h.ok THEN savehist(file, MergeFinals(h.xs, finals)) ELSE file

----------------------------------------------------------------------------
(* The bounds a specification runs under: b.draw samples random.randint,   *)
(* b.rollKeys and b.pickKeys bound the key presses of a phase, and no      *)
(* command is taken once b.maxFilled categories are filled.                *)

\* random.randint(lo, hi) returns any value of lo..hi; the model draws
\* from the whole range ("all"), from both its ends ("ends") or from its
\* lower end ("low")
RandInt(draw, lo, hi) ==
    IF draw = "all" THEN lo..hi
    ELSE IF draw = "ends" THEN {lo, hi}
    ELSE {lo}

GameBounds ==
    [draw |-> "low", rollKeys |-> GameRollKeys, pickKeys |-> GamePickKeys,
     maxFilled |-> NCAT * (MaxPlayers + 1)]

TurnBounds ==
    [draw |-> "ends", rollKeys |-> TurnRollKeys, pickKeys |-> TurnPickKeys,
     maxFilled |-> TurnFilled]

PickBounds ==
    [draw |-> "ends", rollKeys |-> PickRollKeys, pickKeys |-> PickKeys,
     maxFilled |-> PickFilled]

LiveBounds ==
    [draw |-> "low", rollKeys |-> 0, pickKeys |-> LivePickKeys,
     maxFilled |-> NCAT * (MaxPlayers + 1)]

ScoreBounds ==
    [draw |-> "ends", rollKeys |-> 0, pickKeys |-> ScoreKeys,
     maxFilled |-> ScoreFilled]

----------------------------------------------------------------------------
(* DiceState *)

\* a constructor that leaves one reroll only
NewDiceStatesOneRoll(draw) ==
    { [rolls |-> START_ROLLS - 1, dice |-> d, rollmsk |-> 0] :
        d \in [DiceIdx -> RandInt(draw, 1, 6)] }

\* DiceState(): the states the constructor may return
NewDiceStates(draw) ==
    { [rolls |-> START_ROLLS, dice |-> d, rollmsk |-> 0] :
        d \in [DiceIdx -> RandInt(draw, 1, 6)] }

\* a loop that rerolls every die, selected or not
RerollEveryDie(draw, dice, rollmsk) == [DiceIdx -> RandInt(draw, 1, 6)]

\* the loop of reroll_dice: the dice it may leave, highest selected die first
RECURSIVE RerollLoop(_, _, _)
RerollLoop(draw, dice, rollmsk) ==
    IF rollmsk = 0 THEN { dice }
    ELSE LET n == BitLength(rollmsk) - 1
         IN  UNION { RerollLoop(draw, [dice EXCEPT ![n] = v], XorBit(rollmsk, n)) :
                       v \in RandInt(draw, 1, 6) }

\* reroll_dice without its last line, self.rolls -= 1
reroll_dice_free(draw, d) ==
    { [rolls |-> d.rolls, dice |-> nd, rollmsk |-> 0] :
        nd \in RerollLoop(draw, d.dice, d.rollmsk) }

\* DiceState.reroll_dice: the states it may leave
reroll_dice(draw, d) ==
    { [rolls |-> d.rolls - 1, dice |-> nd, rollmsk |-> 0] :
        nd \in RerollLoop(draw, d.dice, d.rollmsk) }

----------------------------------------------------------------------------
(* game_loop *)

NoDice == [rolls |-> 0, dice |-> [i \in DiceIdx |-> 1], rollmsk |-> 0]

NoCmd == [cmd |-> "", err |-> "", arg |-> 0]

Done(cmd, arg) == [cmd |-> cmd, err |-> "", arg |-> arg]

Failed(cmd, diag, arg) == [cmd |-> cmd, err |-> diag, arg |-> arg]

player == players[cur + 1]

TotalFilled == SumOver([i \in 1..Len(players) |-> Cardinality(DOMAIN players[i].ss)],
                       1..Len(players))

Rolling(b) ==
    /\ screen = "game"
    /\ ~picking_cat
    /\ TotalFilled < b.maxFilled

Picking(b) ==
    /\ screen = "game"
    /\ picking_cat
    /\ TotalFilled < b.maxFilled

\* ^A: mark all dice for rerolling
MarkAll(b) ==
    /\ Rolling(b)
    /\ keys < b.rollKeys
    /\ ds' = [ds EXCEPT !.rollmsk = ALL_DICE_MSK]
    /\ keys' = keys + 1
    /\ last' = Done("MarkAll", 0)
    /\ UNCHANGED <<screen, players, cur, picking_cat, rs, histfile, rerolled, npp, inst>>

\* a Keep All that leaves the highlight of an earlier turn in place
KeepAllStale(b) ==
    /\ Rolling(b)
    /\ rs' = [rs EXCEPT !.sel = BTNSC, !.diag = ""]
    /\ picking_cat' = TRUE
    /\ keys' = 0
    /\ last' = Done("KeepAll", 0)
    /\ UNCHANGED <<screen, players, ds, cur, histfile, rerolled, npp, inst>>

\* ^K, or Enter on [Keep All]: go on to pick a category
KeepAll(b) ==
    /\ Rolling(b)
    /\ rs' = [sel |-> BTNSC, togl |-> -1, diag |-> ""]
    /\ picking_cat' = TRUE
    /\ keys' = 0
    /\ last' = Done("KeepAll", 0)
    /\ UNCHANGED <<screen, players, ds, cur, histfile, rerolled, npp, inst>>

\* ds.rolls == 0
OutOfRolls(d) == d.rolls = 0

\* a check for selected dice that never finds the mask empty
NoDieMarkedNever(d) == FALSE

\* ds.rollmsk == 0
NoDieMarked(d) == d.rollmsk = 0

\* ^R, or Enter on [Reroll]
Reroll(b) ==
    /\ Rolling(b)
    /\ keys < b.rollKeys
    /\ keys' = keys + 1
    /\ IF OutOfRolls(ds)
       THEN /\ rs' = [rs EXCEPT !.diag = "No more rolls remaining"]
            /\ last' = Failed("Reroll", "No more rolls remaining", ds.rollmsk)
            /\ UNCHANGED <<ds, rerolled>>
       ELSE IF NoDieMarked(ds)
       THEN /\ rs' = [rs EXCEPT !.diag = "No dice selected to reroll"]
            /\ last' = Failed("Reroll", "No dice selected to reroll", ds.rollmsk)
            /\ UNCHANGED <<ds, rerolled>>
       ELSE /\ ds' \in reroll_dice(b.draw, ds)
            /\ last' = Done("Reroll", ds.rollmsk)
            /\ rerolled' = rerolled + 1
            /\ rs' = rs
    /\ UNCHANGED <<screen, players, cur, picking_cat, histfile, npp, inst>>

\* Enter on a die: flip its bit in the reroll mask
ToggleDie(b) ==
    /\ Rolling(b)
    /\ keys < b.rollKeys
    /\ rs.sel >= 0
    /\ ds' = [ds EXCEPT !.rollmsk = XorBit(ds.rollmsk, rs.sel)]
    /\ keys' = keys + 1
    /\ last' = Done("ToggleDie", rs.sel)
    /\ UNCHANGED <<screen, players, cur, picking_cat, rs, histfile, rerolled, npp, inst>>

\* where an arrow key takes the cursor while rolling
RollCursorTo(k, sel) ==
    CASE k = "UP" /\ sel = BTNRR         -> 0
      [] k = "UP" /\ sel = BTNKA         -> 4
      [] k = "DOWN" /\ sel >= 0          -> BTNRR
      [] k = "LEFT" /\ sel = BTNKA       -> BTNRR
      [] k = "LEFT" /\ sel > 0           -> sel - 1
      [] k = "RIGHT" /\ sel = BTNRR      -> BTNKA
      [] k = "RIGHT" /\ 0 <= sel /\ sel < 4 -> sel + 1
      [] OTHER                           -> sel

\* an arrow key that moves the cursor while rolling
RollCursor(b) ==
    /\ Rolling(b)
    /\ keys < b.rollKeys
    /\ \E k \in {"UP", "DOWN", "LEFT", "RIGHT"} :
         /\ RollCursorTo(k, rs.sel) # rs.sel
         /\ rs' = [rs EXCEPT !.sel = RollCursorTo(k, rs.sel)]
    /\ keys' = keys + 1
    /\ last' = Done("RollCursor", 0)
    /\ UNCHANGED <<screen, players, ds, cur, picking_cat, histfile, rerolled, npp, inst>>

\* can_select: the cursor positions of the categories absent from ss,
\* in the order of Category
RECURSIVE CanSelectFrom(_, _)
CanSelectFrom(ss, i) ==
    IF i >= NCAT THEN << >>
    ELSE (IF CatAt(i) \in DOMAIN ss THEN << >> ELSE << NCAT - i - 1 >>)
         \o CanSelectFrom(ss, i + 1)

\* can_select without its filter: the cursor positions of all categories
can_select_all(ss) == CanSelectFrom(EmptySheet, 0)

can_select(ss) == CanSelectFrom(ss, 0)

\* can_select.index(v), 0-based
IndexOf(s, v) == (CHOOSE i \in 1..Len(s) : s[i] = v) - 1

\* s[i] for a Python list s and an index i >= -len(s)
PyAt(s, i) == IF i < 0 THEN s[Len(s) + i + 1] ELSE s[i + 1]

\* where KEY_UP / KEY_DOWN takes the cursor while picking (cs is not empty)
PickCursorTo(k, sel, cs) ==
    CASE k = "UP" /\ sel = BTNSC            -> PyAt(cs, -1)
      [] k = "UP" /\ sel # BTNSC            -> PyAt(cs, IndexOf(cs, sel) - 1)
      [] k = "DOWN" /\ sel = PyAt(cs, -1)   -> BTNSC
      [] k = "DOWN" /\ sel # PyAt(cs, -1) /\ sel # BTNSC
                                            -> PyAt(cs, IndexOf(cs, sel) + 1)
      [] OTHER                              -> sel

\* KEY_UP or KEY_DOWN while picking; with nothing left to select,
\* can_select[-1] raises IndexError and the program ends
PickCursor(b) ==
    /\ Picking(b)
    /\ keys < b.pickKeys
    /\ \E k \in {"UP", "DOWN"} :
         LET cs == can_select(player.ss)
         IN  IF cs = << >>
             THEN /\ screen' = "crashed"
                  /\ rs' = rs
                  /\ last' = Failed("PickCursor", "IndexError", 0)
             ELSE /\ PickCursorTo(k, rs.sel, cs) # rs.sel
                  /\ rs' = [rs EXCEPT !.sel = PickCursorTo(k, rs.sel, cs)]
                  /\ screen' = screen
                  /\ last' = Done("PickCursor", 0)
    /\ keys' = keys + 1
    /\ UNCHANGED <<players, ds, cur, picking_cat, histfile, rerolled, npp, inst>>

\* Enter on a category: highlight it
ToggleCategory(b) ==
    /\ Picking(b)
    /\ keys < b.pickKeys
    /\ rs.sel >= 0
    /\ rs' = [rs EXCEPT !.togl = NCAT - rs.sel - 1]
    /\ keys' = keys + 1
    /\ last' = Done("ToggleCategory", NCAT - rs.sel - 1)
    /\ UNCHANGED <<screen, players, ds, cur, picking_cat, histfile, rerolled, npp, inst>>

\* player.ss[cat] = cat.compute(ds.dice)
Scored(ps, i, cat, dice) ==
    [ps EXCEPT ![i + 1].ss = SheetSet(ps[i + 1].ss, cat, compute(cat, dice))]

\* an iterator that does not start over after the last player
NextPlayerNoCycle(i, n) == IF i + 1 < n THEN i + 1 ELSE i

\* a cursor that passes over the next player
NextPlayerSkip(i, n) == (i + 2) % n

\* player = next(playergen)
NextPlayer(i, n) == (i + 1) % n

\* an end-of-game check made as soon as any one sheet is full
GameOverEager(ps, i) == \E j \in 1..Len(ps) : Cardinality(DOMAIN ps[j].ss) = NCAT

\* a check for the end of the game that never finds it
GameOverNever(ps, i) == FALSE

\* player is players[0] and len(player.ss) == len(Category)
GameOver(ps, i) == i = 0 /\ Cardinality(DOMAIN ps[i + 1].ss) = NCAT

\* a check for a highlighted category that always finds one
NoneToggledNever(togl) == FALSE

\* rs.togl == -1: no category is highlighted
NoneToggled(togl) == togl = -1

\* ^S, or Enter on [Select Category]
Confirm(b) ==
    /\ Picking(b)
    /\ UNCHANGED <<npp, inst>>
    /\ IF NoneToggled(rs.togl)
       THEN /\ rs' = [rs EXCEPT !.diag = "No category selected"]
            /\ last' = Failed("Confirm", "No category selected", rs.togl)
            /\ UNCHANGED <<screen, players, ds, cur, picking_cat, histfile, keys,
                           rerolled>>
       ELSE /\ players' = Scored(players, cur, PyAt(Categories, rs.togl), ds.dice)
            /\ ds' \in NewDiceStates(b.draw)
            /\ cur' = NextPlayer(cur, Len(players))
            /\ picking_cat' = FALSE
            /\ rs' = [rs EXCEPT !.diag = "", !.sel = BTNRR]
            /\ keys' = 0
            /\ rerolled' = 0
            /\ last' = Done("Confirm", rs.togl)
            /\ IF GameOver(players', cur')
               THEN /\ screen' = "end"
                    /\ histfile' = game_end_file(histfile, Finals(players'))
               ELSE UNCHANGED <<screen, histfile>>

GameNext(b) ==
    \/ MarkAll(b)
    \/ KeepAll(b)
    \/ Reroll(b)
    \/ ToggleDie(b)
    \/ RollCursor(b)
    \/ PickCursor(b)
    \/ ToggleCategory(b)
    \/ Confirm(b)

----------------------------------------------------------------------------
(* main: the roster screen starts a game, the end screen returns to it *)

\* NewPlayerPanel(body_win): hidden; show() sets the other fields
\* (start_text is << >> for None and << t >> for the text t)
NoPanel ==
    [active |-> FALSE, bi |-> 0, pi |-> BTNAP, text |-> << >>,
     start_text |-> << >>, diag |-> ""]

\* the name of the i-th player of the roster: "A", "B", ...
NameOf(i) == << 64 + i >>

Roster(n) == [i \in 1..n |-> NewPlayer(NameOf(i))]

\* ^S, or Enter on [Start Game]: game_loop begins
StartGame(b) ==
    /\ screen = "main"
    /\ ~npp.active
    /\ Len(players) # 0
    /\ screen' = "game"
    /\ ds' \in NewDiceStates(b.draw)
    /\ cur' = 0
    /\ rs' = [rs EXCEPT !.sel = BTNRR]
    /\ picking_cat' = FALSE
    /\ keys' = 0
    /\ rerolled' = 0
    /\ last' = Done("StartGame", 0)
    /\ UNCHANGED <<players, histfile, npp, inst>>

\* ^N on the end screen: game_end and game_loop return to main
NewGame ==
    /\ screen = "end"
    /\ screen' = "main"
    /\ rs' = [rs EXCEPT !.sel = BTNAP]
    /\ last' = Done("NewGame", 0)
    /\ UNCHANGED <<players, ds, cur, picking_cat, histfile, keys, rerolled, npp, inst>>

\* the program on screen scr with roster ps, before any game, and an empty
\* history file
InitWith(scr, ps) ==
    /\ screen = scr
    /\ players = ps
    /\ ds = NoDice
    /\ cur = 0
    /\ picking_cat = FALSE
    /\ rs = [sel |-> BTNAP, togl |-> -1, diag |-> ""]
    /\ histfile = << >>
    /\ keys = 0
    /\ rerolled = 0
    /\ last = NoCmd
    /\ npp = NoPanel
    /\ inst = << >>

\* the roster screen with 1..MaxPlayers fresh players
Init == \E n \in 1..MaxPlayers : InitWith("main", Roster(n))

\* whole games, one after the other
Next ==
    \/ GameNext(GameBounds)
    \/ StartGame(GameBounds)
    \/ NewGame

Spec == Init /\ [][Next]_vars

\* the first turn of a one-player game, with dice that differ
InitTurn == InitWith("main", Roster(1))

NextTurn ==
    \/ GameNext(TurnBounds)
    \/ StartGame(TurnBounds)

SpecTurn == InitTurn /\ [][NextTurn]_vars

\* the first turns of a one-player game, with dice that differ and short phases
NextPick ==
    \/ GameNext(PickBounds)
    \/ StartGame(PickBounds)

SpecPick == InitTurn /\ [][NextPick]_vars

\* the first turns of a game in which every roll is kept as thrown
NextScore ==
    \/ KeepAll(ScoreBounds)
    \/ PickCursor(ScoreBounds)
    \/ ToggleCategory(ScoreBounds)
    \/ Confirm(ScoreBounds)
    \/ StartGame(ScoreBounds)

SpecScore == Init /\ [][NextScore]_vars

----------------------------------------------------------------------------
(* One game played to its end by players who keep every roll and who,      *)
(* within the key presses of a picking phase, highlight a category         *)

\* the key presses still needed to highlight a category: Enter on a
\* category, with KEY_UP before it when the cursor is on [Select Category]
KeysToHighlight ==
    IF ~picking_cat \/ rs.togl # -1 THEN 0
    ELSE IF rs.sel >= 0 THEN 1
    ELSE 2

\* the player has the key presses left to highlight a category
Attentive(b) == keys + KeysToHighlight <= b.pickKeys

NextLive ==
    \/ StartGame(LiveBounds)
    \/ KeepAll(LiveBounds) /\ Attentive(LiveBounds)'
    \/ PickCursor(LiveBounds) /\ Attentive(LiveBounds)'
    \/ ToggleCategory(LiveBounds) /\ Attentive(LiveBounds)'
    \/ Confirm(LiveBounds)

\* the players keep pressing keys while a command is open to them
SpecLive == Init /\ [][NextLive]_vars /\ WF_vars(NextLive)

----------------------------------------------------------------------------
(* main and NewPlayerPanel: the roster screen *)

\* the keys typed into the panel: "A", "B" and the space
Typed == {65, 66, 32}

\* str.strip() for text over Typed
RECURSIVE Strip(_)
Strip(s) ==
    IF s = << >> THEN s
    ELSE IF Head(s) = 32 THEN Strip(Tail(s))
    ELSE IF s[Len(s)] = 32 THEN Strip(SubSeq(s, 1, Len(s) - 1))
    ELSE s

\* npp.show(i) reads the name to edit from the end of the roster
show(i) ==
    [active |-> TRUE, bi |-> 0, pi |-> i,
     text |-> IF i >= 0 THEN PyAt(players, -i - 1).name ELSE << >>,
     start_text |-> IF i >= 0 THEN << PyAt(players, -i - 1).name >> ELSE << >>,
     diag |-> ""]

OnRoster == screen = "main" /\ ~npp.active

OnPanel == screen = "main" /\ npp.active

\* ^A, or Enter on [Add Player] or on a player of the list
ShowPanel ==
    /\ OnRoster
    /\ \E i \in {BTNAP} \cup (IF rs.sel >= 0 \/ rs.sel = BTNAP THEN {rs.sel} ELSE {}) :
         /\ npp' = show(i)
         /\ last' = Done("show", i)
    /\ UNCHANGED <<screen, players, ds, cur, picking_cat, rs, histfile, keys, rerolled, inst>>

\* ^S with an empty roster
StartNoPlayers ==
    /\ OnRoster
    /\ Len(players) = 0
    /\ rs' = [rs EXCEPT !.diag = "Cannot start game with no players"]
    /\ last' = Failed("StartGame", "Cannot start game with no players", 0)
    /\ UNCHANGED <<screen, players, ds, cur, picking_cat, histfile, keys, rerolled, npp, inst>>

RosterCursorTo(k, sel, n) ==
    CASE k = "UP" /\ sel < 0 /\ n > 0           -> 0
      [] k = "UP" /\ 0 <= sel /\ sel < n - 1    -> sel + 1
      [] k = "DOWN" /\ sel > 0                   -> sel - 1
      [] k = "DOWN" /\ sel = 0                   -> BTNAP
      [] k = "LEFT" /\ sel = BTNSG               -> BTNAP
      [] k = "RIGHT" /\ sel = BTNAP              -> BTNSG
      [] OTHER                                    -> sel

\* the arrow keys on the roster screen
RosterCursor ==
    /\ OnRoster
    /\ \E k \in {"UP", "DOWN", "LEFT", "RIGHT"} :
         /\ RosterCursorTo(k, rs.sel, Len(players)) # rs.sel
         /\ rs' = [rs EXCEPT !.sel = RosterCursorTo(k, rs.sel, Len(players))]
    /\ last' = Done("RosterCursor", 0)
    /\ UNCHANGED <<screen, players, ds, cur, picking_cat, histfile, keys, rerolled, npp, inst>>

\* Backspace on a player of the list: players.pop(len(players) - rs.sel - 1)
RemovePlayer ==
    /\ OnRoster
    /\ rs.sel >= 0
    /\ LET k == Len(players) - rs.sel
       IN  players' = SubSeq(players, 1, k - 1) \o SubSeq(players, k + 1, Len(players))
    /\ rs' = [rs EXCEPT !.sel = IF Len(players') = 0 THEN BTNAP
                                 ELSE IF rs.sel # 0 THEN rs.sel - 1
                                 ELSE rs.sel]
    /\ last' = Done("RemovePlayer", rs.sel)
    /\ UNCHANGED <<screen, ds, cur, picking_cat, histfile, keys, rerolled, npp, inst>>

\* ^E in the panel
PanelExit ==
    /\ OnPanel
    /\ npp' = [npp EXCEPT !.active = FALSE]
    /\ last' = Done("PanelExit", 0)
    /\ UNCHANGED <<screen, players, ds, cur, picking_cat, rs, histfile, keys, rerolled, inst>>

\* KEY_UP and KEY_DOWN in the panel: the text field or the button
PanelFocus ==
    /\ OnPanel
    /\ \E bi \in {0, BTNAPP} :
         /\ bi # npp.bi
         /\ npp' = [npp EXCEPT !.bi = bi]
    /\ last' = Done("PanelFocus", 0)
    /\ UNCHANGED <<screen, players, ds, cur, picking_cat, rs, histfile, keys, rerolled, inst>>

\* a printable key, or Backspace
PanelEdit ==
    /\ OnPanel
    /\ \/ \E k \in Typed :
            /\ Len(npp.text) < MaxNameLen
            /\ npp' = [npp EXCEPT !.text = Append(npp.text, k)]
       \/ /\ npp.text # << >>
          /\ npp' = [npp EXCEPT !.text = SubSeq(npp.text, 1, Len(npp.text) - 1)]
    /\ last' = Done("PanelEdit", 0)
    /\ UNCHANGED <<screen, players, ds, cur, picking_cat, rs, histfile, keys, rerolled, inst>>

\* pn != self._start_text and any(p.name == pn for p in players)
NameTaken(pn) ==
    /\ << pn >> # npp.start_text
    /\ \E i \in 1..Len(players) : players[i].name = pn

\* ^A, or Enter on the panel's [Add Player]: add a player or rename one
PanelConfirm ==
    /\ OnPanel
    /\ Len(players) < MaxPlayers \/ npp.pi >= 0
    /\ LET pn == Strip(npp.text)
       IN  IF pn = << >>
           THEN /\ npp' = [npp EXCEPT !.diag = "Empty player name not allowed"]
                /\ last' = Failed("PanelConfirm", "Empty player name not allowed", pn)
                /\ players' = players
           ELSE IF NameTaken(pn)
           THEN /\ npp' = [npp EXCEPT !.diag = "Name already taken"]
                /\ last' = Failed("PanelConfirm", "Name already taken", pn)
                /\ players' = players
           ELSE /\ players' = IF npp.pi >= 0
                              THEN [players EXCEPT ![npp.pi + 1].name = pn]
                              ELSE Append(players, NewPlayer(pn))
                /\ npp' = [npp EXCEPT !.active = FALSE]
                /\ last' = Done("PanelConfirm", pn)
    /\ UNCHANGED <<screen, ds, cur, picking_cat, rs, histfile, keys, rerolled, inst>>

\* the roster screen as the program starts: one player, named after the login
InitRoster == InitWith("main", Roster(1))

NextRoster ==
    \/ ShowPanel
    \/ StartNoPlayers
    \/ RosterCursor
    \/ RemovePlayer
    \/ PanelExit
    \/ PanelFocus
    \/ PanelEdit
    \/ PanelConfirm

SpecRoster == InitRoster /\ [][NextRoster]_vars

----------------------------------------------------------------------------
(* ScoreSheet on its own: item assignments on one sheet *)

SheetCats == {"Ones", "Sixes", "Yatzy"}

\* the points category c can be given: what compute returns on some roll
PointsOf(c) == { compute(c, d) : d \in [DiceIdx -> {1, 6}] }

\* player.ss.get(category, -1)
SheetGetOr(ss, cat, default) == IF cat \in DOMAIN ss THEN ss[cat] ELSE default

\* players[0].ss[c] = v
SetItem ==
    /\ screen = "sheet"
    /\ \E c \in SheetCats : \E v \in PointsOf(c) :
         /\ players' = [players EXCEPT ![1].ss = SheetSet(players[1].ss, c, v)]
         /\ last' = Done("SetItem",
                         [cat |-> c, pts |-> v,
                          old |-> SheetGetOr(players[1].ss, c, -1)])
    /\ UNCHANGED <<screen, ds, cur, picking_cat, rs, histfile, keys, rerolled, npp, inst>>

InitSheet == InitWith("sheet", Roster(1))

NextSheet == SetItem

SpecSheet == InitSheet /\ [][NextSheet]_vars

----------------------------------------------------------------------------
(* The history file on its own: games that end with given final scores *)

ScoreSamples == {9, 10, 100}

NameSamples == { << 65 >>, << 65, 66 >>, << 66 >> }

Entries == ScoreSamples \X NameSamples

\* the entries of the history file, or << >> where loadhist raises
HistEntries(file) == loadhist(file, -1).xs

\* game_end with the given (total, name) of every player, in roster order
FinishGame ==
    /\ screen = "end"
    /\ \E n \in 1..MaxPlayers :
         /\ Len(HistEntries(histfile)) + n <= MaxHist
         /\ \E finals \in [1..n -> Entries] :
              /\ histfile' = game_end_file(histfile, finals)
              /\ last' = Done("game_end", finals)
    /\ UNCHANGED <<screen, players, ds, cur, picking_cat, rs, keys, rerolled, npp, inst>>

InitHist == InitWith("end", << >>)

NextHist == FinishGame

SpecHist == InitHist /\ [][NextHist]_vars

----------------------------------------------------------------------------
(* ScoreSheet.total on its own: the total of a given sheet *)

\* the upper categories by face, as compute scores them: face * count
UpperFace == [c \in UPPER_SECTION |-> IndexOf(Categories, c) + 1]

LowerPoints == [c \in {"One Pair", "Chance", "Yatzy"} |->
                  compute(c, [i \in DiceIdx |-> 6])]

\* the sheet with count[c] dice scored in upper category c (none where
\* count[c] = 0) and the lower categories of has scored on five sixes
SampleSheet(count, has) ==
    [c \in { u \in UPPER_SECTION : count[u] # 0 } \cup has |->
        IF c \in UPPER_SECTION THEN UpperFace[c] * count[c] ELSE LowerPoints[c]]

\* player.ss.total()
Total ==
    /\ screen = "total"
    /\ last = NoCmd
    /\ last' = Done("total", total(players[1].ss))
    /\ UNCHANGED <<screen, players, ds, cur, picking_cat, rs, histfile, keys, rerolled, npp, inst>>

InitTotal ==
    \E count \in [UPPER_SECTION -> 0..MaxFaceCount] :
      \E has \in SUBSET (DOMAIN LowerPoints) :
        InitWith("total", << [name |-> NameOf(1), ss |-> SampleSheet(count, has)] >>)

NextTotal == Total

SpecTotal == InitTotal /\ [][NextTotal]_vars

----------------------------------------------------------------------------
(* Category.compute on its own: every category on every roll of five dice *)

\* category.compute(ds.dice)
Compute ==
    /\ screen = "compute"
    /\ last = NoCmd
    /\ \E c \in CategorySet :
         last' = Done("compute", [cat |-> c, pts |-> compute(c, ds.dice)])
    /\ UNCHANGED <<screen, players, ds, cur, picking_cat, rs, histfile, keys, rerolled, npp, inst>>

\* any roll a DiceState can hold
InitCompute ==
    /\ screen = "compute"
    /\ players = << >>
    /\ ds \in NewDiceStates("all")
    /\ cur = 0
    /\ picking_cat = FALSE
    /\ rs = [sel |-> BTNRR, togl |-> -1, diag |-> ""]
    /\ histfile = << >>
    /\ keys = 0
    /\ rerolled = 0
    /\ last = NoCmd
    /\ npp = NoPanel
    /\ inst = << >>

NextCompute == Compute

SpecCompute == InitCompute /\ [][NextCompute]_vars

----------------------------------------------------------------------------
(* game_end in several instances of the program on one history file: each  *)
(* instance loads the file, merges its finals, and writes the list back     *)

\* an instance whose one-player game is about to end with entry e
Playing(e) == [pc |-> "playing", hist |-> << >>, finals |-> << e >>]

\* hist = loadhist(fp); an instance ends where loadhist raises
Load(i) ==
    /\ inst[i].pc = "playing"
    /\ LET h == loadhist(histfile, -1)
       IN  inst' = [inst EXCEPT ![i].pc = IF h.ok THEN "loaded" ELSE "crashed",
                                ![i].hist = IF h.ok THEN h.xs ELSE << >>]
    /\ last' = Done("load", i)
    /\ UNCHANGED <<screen, players, ds, cur, picking_cat, rs, histfile, keys, rerolled, npp>>

\* a list read again from the file at the moment of saving
ReloadedHist(i) == HistEntries(histfile)

\* the list an instance merges into and saves: the one it has loaded
LoadedHist(i) == inst[i].hist

\* the insort loop, fp.seek(0, io.SEEK_SET) and savehist(fp, hist)
Save(i) ==
    /\ inst[i].pc = "loaded"
    /\ histfile' = savehist(histfile, MergeFinals(LoadedHist(i), inst[i].finals))
    /\ inst' = [inst EXCEPT ![i].pc = "saved"]
    /\ last' = Done("save", i)
    /\ UNCHANGED <<screen, players, ds, cur, picking_cat, rs, keys, rerolled, npp>>

InitRace ==
    /\ screen = "end"
    /\ players = << >>
    /\ ds = NoDice
    /\ cur = 0
    /\ picking_cat = FALSE
    /\ rs = [sel |-> BTNRR, togl |-> -1, diag |-> ""]
    /\ histfile = << >>
    /\ keys = 0
    /\ rerolled = 0
    /\ last = NoCmd
    /\ npp = NoPanel
    /\ inst \in [1..Instances -> { Playing(e) : e \in Entries }]

NextRace == \E i \in 1..Instances : Load(i) \/ Save(i)

SpecRace == InitRace /\ [][NextRace]_vars

----------------------------------------------------------------------------
(* Properties *)

Filled(ps, i) == Cardinality(DOMAIN ps[i].ss)

AllFilled(ps) == \A i \in 1..Len(ps) : Filled(ps, i) = NCAT

NoRollsLeft == "No more rolls remaining"

NoDiceSelected == "No dice selected to reroll"

NoCategorySelected == "No category selected"

\* C1: the end screen is entered only by a successful Confirm, with the turn
\* back at the first player and all 15 categories of every player filled;
\* no state on the end screen has a player with fewer than 15 entries.
C1_EndOnlyWhenAllFilled ==
    [][ screen' = "end" =>
          /\ AllFilled(players')
          /\ cur' = 0
          /\ screen # "end" =>
               /\ screen = "game" /\ picking_cat
               /\ last'.cmd = "Confirm" /\ last'.err = ""
               /\ Filled(players, cur + 1) = NCAT - 1 ]_vars

\* a two-player game has ended, on the second player's Confirm
C1_Witness ==
    /\ screen = "end"
    /\ Len(players) = 2
    /\ last.cmd = "Confirm"

\* C2 as stated: assigning to a category that is present fails with
\* AlreadyScored and leaves the sheet as it was.
C2_SetPresentFails ==
    [][ (last'.cmd = "SetItem" /\ last'.arg.cat \in DOMAIN players[1].ss) =>
          /\ last'.err = "AlreadyScored"
          /\ players' = players ]_vars

\* C2 amended: an item assignment never fails; it stores the given points
\* under the category, whether or not the category was present, and every
\* other entry keeps its value.
C2_SetOverwrites ==
    [][ last'.cmd = "SetItem" =>
          LET old == players[1].ss
              new == players'[1].ss
              c == last'.arg.cat
          IN  /\ last'.err = ""
              /\ DOMAIN new = (DOMAIN old) \cup {c}
              /\ new[c] = last'.arg.pts
              /\ \A x \in (DOMAIN old) \ {c} : new[x] = old[x] ]_vars

\* a category that was present has been given other points
C2_Witness ==
    /\ last.cmd = "SetItem"
    /\ last.arg.old # -1
    /\ last.arg.old # last.arg.pts
    /\ players[1].ss[last.arg.cat] = last.arg.pts

\* C3: no command of a game removes an entry of any sheet or changes its
\* value, and a sheet holds categories only, so at most 15 entries.
C3_EntriesImmutable ==
    [][ \A i \in 1..Len(players) :
          /\ \A c \in DOMAIN players[i].ss :
               /\ c \in DOMAIN players'[i].ss
               /\ players'[i].ss[c] = players[i].ss[c]
          /\ DOMAIN players'[i].ss \subseteq CategorySet
          /\ Filled(players', i) <= NCAT ]_vars

\* a player who held an entry has confirmed another category
C3_Witness ==
    /\ last.cmd = "Confirm" /\ last.err = ""
    /\ Len(players) = 1
    /\ Filled(players, 1) = 2

\* C4: Reroll with no rolls left fails with NoRollsLeft, and with rolls left
\* but no die selected fails with NoDiceSelected; either way only the
\* diagnostic message changes.
C4_RerollFailureKeepsState ==
    [][ (last'.cmd = "Reroll" /\ (ds.rolls = 0 \/ ds.rollmsk = 0)) =>
          /\ last'.err = IF ds.rolls = 0 THEN NoRollsLeft ELSE NoDiceSelected
          /\ rs' = [rs EXCEPT !.diag = last'.err]
          /\ UNCHANGED <<screen, players, ds, cur, picking_cat, histfile>> ]_vars

\* Reroll has failed for want of selected dice, with a roll left
C4_Witness ==
    /\ last.cmd = "Reroll" /\ last.err = NoDiceSelected
    /\ ds.rolls = 1
    /\ ds.rollmsk = 0

\* C5: a turn starts with 2 rolls remaining, the count stays in 0..2, at most
\* two Rerolls of a turn succeed, and a Reroll after two successes fails with
\* NoRollsLeft whatever dice are selected.
C5_AtMostTwoRerolls ==
    [][ /\ screen' = "game" => (ds'.rolls \in 0..2 /\ rerolled' <= 2)
        /\ (last'.cmd \in {"StartGame", "Confirm"} /\ last'.err = "") =>
             (ds'.rolls = 2 /\ rerolled' = 0)
        /\ (last'.cmd = "Reroll" /\ rerolled = 2) =>
             (last'.err = NoRollsLeft /\ rerolled' = 2 /\ ds' = ds) ]_vars

\* the third Reroll of a turn, with dice selected, has failed
C5_Witness ==
    /\ last.cmd = "Reroll" /\ last.err = NoRollsLeft
    /\ rerolled = 2
    /\ ds.rollmsk # 0

\* C6: a successful Reroll gives every selected die a value in 1..6, leaves
\* the other dice as they were, clears the selection and takes one roll.
C6_RerollEffect ==
    [][ (last'.cmd = "Reroll" /\ last'.err = "") =>
          /\ ds.rolls > 0 /\ ds.rollmsk # 0
          /\ \A i \in DiceIdx :
               IF Bit(ds.rollmsk, i) = 1
               THEN ds'.dice[i] \in 1..6
               ELSE ds'.dice[i] = ds.dice[i]
          /\ DOMAIN ds'.dice = DiceIdx
          /\ ds'.rollmsk = 0
          /\ ds'.rolls = ds.rolls - 1 ]_vars

\* die 0 alone has been rerolled and now differs from die 1
C6_Witness ==
    /\ last.cmd = "Reroll" /\ last.err = ""
    /\ last.arg = 1
    /\ ds.dice[0] # ds.dice[1]

\* C7: Confirm with no category highlighted fails with NoCategorySelected,
\* and only the diagnostic message changes.
C7_ConfirmNeedsCategory ==
    [][ (last'.cmd = "Confirm" /\ rs.togl = -1) =>
          /\ last'.err = NoCategorySelected
          /\ rs' = [rs EXCEPT !.diag = NoCategorySelected]
          /\ UNCHANGED <<screen, players, ds, cur, picking_cat, histfile>> ]_vars

\* Confirm has failed in a player's later turn
C7_Witness ==
    /\ last.cmd = "Confirm" /\ last.err = NoCategorySelected
    /\ picking_cat
    /\ TotalFilled > 0

\* C8: a successful Confirm stores compute(highlighted category, dice) under
\* that category in the active player's sheet, changes nothing else in any
\* sheet, and passes the turn to the next player, the first after the last.
C8_ConfirmEffect ==
    [][ (last'.cmd = "Confirm" /\ last'.err = "") =>
          LET i == cur + 1
              cat == Categories[rs.togl + 1]
              old == players[i].ss
              new == players'[i].ss
          IN  /\ rs.togl \in 0..(NCAT - 1)
              /\ Len(players') = Len(players)
              /\ DOMAIN new = (DOMAIN old) \cup {cat}
              /\ new[cat] = compute(cat, ds.dice)
              /\ \A c \in (DOMAIN old) \ {cat} : new[c] = old[c]
              /\ players'[i].name = players[i].name
              /\ \A j \in (1..Len(players)) \ {i} : players'[j] = players[j]
              /\ cur' = IF cur = Len(players) - 1 THEN 0 ELSE cur + 1 ]_vars

\* the second of two players has confirmed and the turn is the first's again
C8_Witness ==
    /\ last.cmd = "Confirm" /\ last.err = ""
    /\ Len(players) = 2
    /\ cur = 0
    /\ Filled(players, 2) = 1

\* s < t for names: lexicographic by code point
NameLess(s, t) ==
    \E k \in 1..Len(t) :
        /\ k - 1 <= Len(s)
        /\ \A j \in 1..(k - 1) : s[j] = t[j]
        /\ k = Len(s) + 1 \/ (k <= Len(s) /\ s[k] < t[k])

\* entry x ranks strictly before entry y: a higher score, or the same score
\* and a smaller name
Precedes(x, y) == x[1] > y[1] \/ (x[1] = y[1] /\ NameLess(x[2], y[2]))

SortedHist(xs) ==
    \A i, j \in 1..Len(xs) : i < j => ~Precedes(xs[j], xs[i])

\* C9: the history file, reloaded, is sorted by score descending and then by
\* name ascending after every finished game, and it is the text of exactly
\* the entries it reloads to.
C9_HistorySorted ==
    /\ loadhist(histfile, -1).ok
    /\ SortedHist(HistEntries(histfile))
    /\ HistText(HistEntries(histfile)) = histfile

\* (100, "B") then (100, "A") were merged into the empty history
C9_Witness ==
    /\ last.cmd = "game_end"
    /\ last.arg = << << 100, << 66 >> >>, << 100, << 65 >> >> >>
    /\ HistEntries(histfile) = << << 100, << 65 >> >>, << 100, << 66 >> >> >>

\* the slot after every entry of a that x does not rank strictly before
SlotAfterEquals(a, x) == Cardinality({ i \in 1..Len(a) : ~Precedes(x, a[i]) })

\* every entry of fin, in turn, goes into the slot after the entries it does
\* not precede, and the outcome is post
RECURSIVE StableInsertions(_, _, _)
StableInsertions(a, fin, post) ==
    IF fin = << >> THEN a = post
    ELSE LET x == Head(fin)
             k == SlotAfterEquals(a, x)
         IN  /\ BisectRight(a, x, 0, Len(a)) = k
             /\ StableInsertions(SubSeq(a, 1, k) \o << x >> \o SubSeq(a, k + 1, Len(a)),
                                 Tail(fin), post)

\* C10: the merge inserts each new entry after all present entries of an
\* equal key and keeps the present entries in their order.
C10_MergeStable ==
    [][ last'.cmd = "game_end" =>
          StableInsertions(HistEntries(histfile), last'.arg,
                           HistEntries(histfile')) ]_vars

\* an entry equal to one already present has been merged
C10_Witness ==
    /\ last.cmd = "game_end"
    /\ Len(last.arg) = 1
    /\ LET xs == HistEntries(histfile)
       IN  \E i \in 1..(Len(xs) - 1) :
             xs[i] = last.arg[1] /\ xs[i + 1] = last.arg[1]

\* how often entry e occurs in xs
Occurrences(xs, e) == Cardinality({ i \in 1..Len(xs) : xs[i] = e })

\* C11: a finished game of N players leaves in the saved history every entry
\* it held before and one more entry per player, N more in all, also for a
\* name or a (score, name) pair that is already there.
C11_MergeKeepsAll ==
    [][ last'.cmd = "game_end" =>
          LET old == HistEntries(histfile)
              new == HistEntries(histfile')
              fin == last'.arg
          IN  /\ loadhist(histfile', -1).ok
              /\ Len(new) = Len(old) + Len(fin)
              /\ \A e \in Entries :
                   Occurrences(new, e) = Occurrences(old, e) + Occurrences(fin, e) ]_vars

\* a game of two players with the same final entry has ended on a history
\* that held that entry already
C11_Witness ==
    /\ last.cmd = "game_end"
    /\ Len(last.arg) = 2
    /\ last.arg[1] = last.arg[2]
    /\ Occurrences(HistEntries(histfile), last.arg[1]) = 3

\* the points of category c in sheet ss, 0 where c is absent
PointsIn(ss, c) == IF c \in DOMAIN ss THEN ss[c] ELSE 0

UpperSum(ss) ==
    PointsIn(ss, "Ones") + PointsIn(ss, "Twos") + PointsIn(ss, "Threes")
      + PointsIn(ss, "Fours") + PointsIn(ss, "Fives") + PointsIn(ss, "Sixes")

LowerSum(ss) ==
    PointsIn(ss, "One Pair") + PointsIn(ss, "Two Pairs")
      + PointsIn(ss, "Three of a Kind") + PointsIn(ss, "Four of a Kind")
      + PointsIn(ss, "Small Straight") + PointsIn(ss, "Large Straight")
      + PointsIn(ss, "Full House") + PointsIn(ss, "Chance") + PointsIn(ss, "Yatzy")

\* C12: total() is the sum of the present upper entries, plus the sum of the
\* present lower entries, plus 50 exactly when the upper sum is at least 63.
C12_TotalWithBonus ==
    last.cmd = "total" =>
        LET ss == players[1].ss
        IN  last.arg = UpperSum(ss) + LowerSum(ss)
                         + (IF UpperSum(ss) >= 63 THEN 50 ELSE 0)

\* an upper sum of exactly 63, on a sheet with absent categories, got the bonus
C12_Witness ==
    /\ last.cmd = "total"
    /\ UpperSum(players[1].ss) = 63
    /\ "Yatzy" \notin DOMAIN players[1].ss
    /\ last.arg = 113 + LowerSum(players[1].ss)

\* an upper sum of 62 got no bonus
C12_WitnessBelow ==
    /\ last.cmd = "total"
    /\ UpperSum(players[1].ss) = 62
    /\ last.arg = 62 + LowerSum(players[1].ss)

\* how many of the five dice show face x
Times(dice, x) == Cardinality({ i \in 0..4 : dice[i] = x })

\* the sum of the five dice
Pips(dice) == dice[0] + dice[1] + dice[2] + dice[3] + dice[4]

\* C13: on every roll of five dice with faces 1..6 every category scores a
\* value in 0..50, and 50 is scored by Yatzy only, on five equal faces.
C13_ComputeRange ==
    last.cmd = "compute" =>
        /\ \A i \in 0..4 : ds.dice[i] \in 1..6
        /\ last.arg.pts \in 0..50
        /\ last.arg.pts = 50 =>
              /\ last.arg.cat = "Yatzy"
              /\ \A i \in 0..4 : ds.dice[i] = ds.dice[0]

\* Yatzy has scored 50 on five sixes
C13_Witness ==
    /\ last.cmd = "compute"
    /\ last.arg = [cat |-> "Yatzy", pts |-> 50]
    /\ \A i \in 0..4 : ds.dice[i] = 6

\* C14: Full House scores the sum of the five dice exactly when one face
\* occurs exactly twice and another exactly three times, and 0 otherwise.
C14_FullHouse ==
    (last.cmd = "compute" /\ last.arg.cat = "Full House") =>
        last.arg.pts =
            IF \E a, b \in 1..6 :
                 a # b /\ Times(ds.dice, a) = 2 /\ Times(ds.dice, b) = 3
            THEN Pips(ds.dice)
            ELSE 0

\* the roll (2,2,3,3,3) has scored 13 as Full House
C14_Witness ==
    /\ last.cmd = "compute"
    /\ ds.dice = [i \in 0..4 |-> IF i < 2 THEN 2 ELSE 3]
    /\ last.arg = [cat |-> "Full House", pts |-> 13]

\* five of a kind has scored 0 as Full House
C14_WitnessFive ==
    /\ last.cmd = "compute"
    /\ ds.dice = [i \in 0..4 |-> 5]
    /\ last.arg = [cat |-> "Full House", pts |-> 0]

\* C15: Two Pairs scores 2 * (f1 + f2) for the two highest distinct faces
\* f1 > f2 that each occur at least twice, and 0 when there are fewer than
\* two such faces.
C15_TwoPairs ==
    (last.cmd = "compute" /\ last.arg.cat = "Two Pairs") =>
        LET paired == { x \in 1..6 : Times(ds.dice, x) >= 2 }
        IN  IF \E f1, f2 \in paired : f1 > f2
            THEN \E f1, f2 \in paired :
                   /\ f1 > f2
                   /\ \A x \in paired : x <= f1
                   /\ \A x \in paired \ {f1} : x <= f2
                   /\ last.arg.pts = 2 * (f1 + f2)
            ELSE last.arg.pts = 0

\* a pair and a triple have scored as two pairs
C15_Witness ==
    /\ last.cmd = "compute"
    /\ ds.dice = [i \in 0..4 |-> IF i < 2 THEN 2 ELSE 3]
    /\ last.arg = [cat |-> "Two Pairs", pts |-> 10]

\* four of a kind has scored 0 as two pairs
C15_WitnessFour ==
    /\ last.cmd = "compute"
    /\ Times(ds.dice, 6) = 4
    /\ last.arg = [cat |-> "Two Pairs", pts |-> 0]

\* C16 as stated: after any roster commands the names of the roster are
\* pairwise distinct and non-empty after trimming, and a rejected add or
\* rename leaves the roster as it was.
C16_RosterNamesDistinct ==
    [][ /\ \A i, j \in 1..Len(players') :
             i # j => players'[i].name # players'[j].name
        /\ \A i \in 1..Len(players') : Strip(players'[i].name) # << >>
        /\ (last'.cmd = "PanelConfirm" /\ last'.err # "") => players' = players ]_vars

\* C17: the first turn of a game, and the turn after every successful
\* Confirm that does not end the game, begins in the rolling phase with two
\* rerolls left, no die selected and five dice in 1..6.
C17_TurnStartsFresh ==
    [][ (\/ last'.cmd = "StartGame"
         \/ last'.cmd = "Confirm" /\ last'.err = "" /\ screen' # "end") =>
          /\ screen' = "game"
          /\ ~picking_cat'
          /\ ds'.rolls = 2
          /\ ds'.rollmsk = 0
          /\ DOMAIN ds'.dice = 0..4
          /\ \A i \in 0..4 : ds'.dice[i] \in 1..6 ]_vars

\* a turn in which a die was rerolled has ended and the next has begun
C17_Witness ==
    /\ last.cmd = "Confirm" /\ last.err = ""
    /\ screen = "game" /\ ~picking_cat
    /\ TotalFilled = 1
    /\ ds.rolls = 2 /\ ds.rollmsk = 0

\* the highlight togl is none, or a category absent from sheet ss
HighlightEligible(togl, ss) ==
    \/ togl = -1
    \/ togl \in 0..14 /\ Categories[togl + 1] \notin DOMAIN ss

\* C18: while a category is being picked, the highlighted category is none
\* or one absent from the active player's sheet; it is none directly after
\* Keep All, whatever was highlighted in an earlier turn; and a successful
\* Confirm is always on a category that was absent.
C18_HighlightUnfilled ==
    [][ /\ (screen' = "game" /\ picking_cat') =>
              HighlightEligible(rs'.togl, players'[cur' + 1].ss)
        /\ last'.cmd = "KeepAll" => rs'.togl = -1
        /\ (last'.cmd = "Confirm" /\ last'.err = "") =>
              /\ rs.togl # -1
              /\ HighlightEligible(rs.togl, players[cur + 1].ss) ]_vars

\* in a later turn Keep All has cleared the highlight of the category that
\* was filled in the turn before
C18_Witness ==
    /\ last.cmd = "KeepAll"
    /\ picking_cat
    /\ rs.togl = -1
    /\ DOMAIN players[cur + 1].ss = {"Yatzy"}

\* how many lines of the text file are the line of entry e
LineCount(file, e) ==
    Cardinality({ k \in 1..Len(file) :
        /\ k = 1 \/ file[k - 1] = 10
        /\ k + Len(EntryLine(e)) - 1 <= Len(file)
        /\ SubSeq(file, k, k + Len(EntryLine(e)) - 1) = EntryLine(e) })

\* C19: game_end is a read-modify-write without a lock. A save writes the
\* list its instance loaded earlier plus that instance's own entries,
\* whatever the file holds by then; where that text covers the file, the
\* file is left with just those entries, so what another instance has
\* saved since the load is lost.
C19_SaveWritesStaleList ==
    [][ last'.cmd = "save" =>
          LET i == last'.arg
              mine == MergeFinals(inst[i].hist, inst[i].finals)
              text == HistText(mine)
          IN  /\ inst[i].pc = "loaded"
              /\ Len(histfile') >= Len(text)
              /\ SubSeq(histfile', 1, Len(text)) = text
              /\ Len(text) >= Len(histfile) =>
                    \A e \in Entries :
                      LineCount(histfile', e) = Occurrences(mine, e) ]_vars

\* two instances have both saved, and the file holds no line for the entry
\* of the first one
C19_Witness ==
    /\ Len(inst) >= 2
    /\ inst[1].pc = "saved" /\ inst[2].pc = "saved"
    /\ inst[1].finals # inst[2].finals
    /\ LineCount(histfile, inst[1].finals[1]) = 0

\* C20 as stated: a game started from the roster screen, also after an
\* earlier game has ended, starts with every sheet empty, and whenever a
\* category is being picked the active player has one left to select.
C20_NewGameSheetsEmpty ==
    [][ /\ last'.cmd = "StartGame" =>
              \A i \in 1..Len(players') : DOMAIN players'[i].ss = {}
        /\ (screen' = "game" /\ picking_cat') =>
              DOMAIN players'[cur' + 1].ss # CategorySet ]_vars

\* C21 as stated: a confirmed rename changes the name of exactly the player
\* that was selected in the list, whose name the panel showed, and leaves
\* every other player as it was.
C21_RenameSelectedOnly ==
    [][ (last'.cmd = "PanelConfirm" /\ last'.err = "" /\ npp.pi >= 0) =>
          LET k == Len(players) - npp.pi
          IN  /\ npp.start_text = << players[k].name >>
              /\ players' = [players EXCEPT ![k].name = last'.arg] ]_vars

\* with the turn at position c (0-based) every player before it holds one
\* entry more than the active player and every player from it on as many
SizesInTurnOrder(ps, c) ==
    \A i \in 1..Len(ps) :
        Filled(ps, i) = Filled(ps, c + 1) + (IF i - 1 < c THEN 1 ELSE 0)

\* C22: turns are taken strictly in roster order, the turn moving on by one
\* player at a successful Confirm and at no other command, and the sheet
\* sizes follow it: the players before the active one hold k + 1 entries
\* and the others k.
C22_TurnsInRosterOrder ==
    [][ /\ cur' \in 0..(Len(players') - 1)
        /\ SizesInTurnOrder(players', cur')
        /\ (last'.cmd = "Confirm" /\ last'.err = "") =>
              cur' = (IF cur + 1 = Len(players) THEN 0 ELSE cur + 1)
        /\ ~(last'.cmd = "Confirm" /\ last'.err = "") => cur' = cur ]_vars

\* the second of two players is at turn in the middle of a game
C22_Witness ==
    /\ screen = "game"
    /\ Len(players) = 2
    /\ cur = 1
    /\ Filled(players, 1) = 8
    /\ Filled(players, 2) = 7

\* C23: a game of N players started with empty sheets, whose players go on
\* to pick, highlight and confirm, reaches the end screen, and reaches it
\* with 15 * N entries scored, one per successful Confirm; before the end
\* some command is always open.
C23_GameTerminates ==
    /\ <>(screen = "end")
    /\ [](screen = "end" => TotalFilled = 15 * Len(players))
    /\ [](screen # "end" => ENABLED <<NextLive>>_vars)

\* a game of two players has ended with thirty entries scored
C23_Witness ==
    /\ screen = "end"
    /\ Len(players) = 2
    /\ TotalFilled = 30
    /\ last = Done("Confirm", 0)

====
